---- MODULE Spec2Model ----
(***************************************************************************)
(* Model of returnn/torch/data/pipeline.py: the streaming data pipeline    *)
(* made of BatchingIterDataPipe (the Batcher) and ChunkingIterDataPipe     *)
(* (the Chunker).  Both are Python generators; a state of the model is a   *)
(* generator suspended at a yield, or standing at the head of its          *)
(* `for data_dict in self._dataset` loop.                                  *)
(***************************************************************************)
EXTENDS Integers, Sequences, FiniteSets, TLC

VARIABLES
    \* ---- BatchingIterDataPipe ----
    dataset,                        \* self._dataset: the finite source, a sequence of records
    max_batch_size,                 \* self._max_batch_size (a NumbersDict)
    max_seqs,                       \* self._max_seqs
    drop_last,                      \* self._drop_last
    current_batch,                  \* local of __iter__
    current_max_sequence_lengths,   \* local of __iter__ (a NumbersDict)
    data_dict,                      \* loop variable of __iter__: <<>> or <<record>>
    pulled,                         \* number of records taken from the source iterator
    pc,                             \* where the generator stands
    yielded,                        \* the batches handed to the consumer, in order
    \* ---- ChunkingIterDataPipe ----
    chunk_size,                     \* self._chunk_size (a NumbersDict)
    chunk_step,                     \* self._chunk_step (a NumbersDict)
    chunking_data_keys,             \* local of __iter__: the list of active fields
    chunk_dict,                     \* loop variable data_dict of __iter__: <<>> or <<record>>
    data_chunks,                    \* local of __iter__: field -> list of windows
    num_chunks,                     \* local of __iter__ (0 stands for None before a record)
    chunk_index,                    \* loop variable of the yield loop
    chunk_pulled,                   \* number of records taken from the source iterator
    chunk_pc,                       \* where the generator stands
    chunk_error,                    \* the assertion that ended the generator, "" if none
    chunks_out,                     \* chunk records yielded for the current source record
    chunks_total,                   \* number of chunk records yielded so far
    objects,                        \* the Python objects behind the fields that are not chunked
    out_refs,                       \* per yielded chunk record: field -> the object it refers to
    \* ---- calls studied on their own ----
    args,                           \* arguments of the constructor call under study
    batch_arg,                      \* the argument batch of collate_batch
    res,                            \* local res of collate_batch, returned at line 83
    collate_pc                      \* where the call of collate_batch stands

batch_vars == <<dataset, max_batch_size, max_seqs, drop_last, current_batch,
                current_max_sequence_lengths, data_dict, pulled, pc, yielded>>

chunk_vars == <<chunk_size, chunk_step, chunking_data_keys, chunk_dict, data_chunks,
                num_chunks, chunk_index, chunk_pulled, chunk_pc, chunk_error,
                chunks_out, chunks_total, objects, out_refs>>

call_vars == <<args, batch_arg, res, collate_pc>>

vars == <<batch_vars, chunk_vars, call_vars>>

(***************************************************************************)
(* Bounds of the model.                                                    *)
(***************************************************************************)
MaxRecords == 3      \* records in a source
MaxLen == 2          \* leading-axis length of the "data" array of a record
MaxBudget == 3       \* largest finite token budget
MaxSeqsBound == 2    \* largest finite max_seqs
MaxChunkRecords == 2 \* records the Chunker takes from its source
MaxChunkLen == 4     \* leading-axis length of an array the Chunker is given
MaxChunkSize == 2    \* largest chunk size configured
MaxChunkStep == 3    \* largest chunk step configured
MaxCollateSeqs == 2  \* records in a batch given to collate_batch
MaxWidth == 3        \* extent of the second axis of a two-axis array

\* sys.maxsize (2^63 - 1 in CPython): here a number above every cost the
\* bounded model can produce, which is all the code uses it for.
sys_maxsize == 1000000

Max2(a, b) == IF a >= b THEN a ELSE b

RECURSIVE Flatten(_)
\* concatenation of a sequence of sequences
Flatten(ss) == IF ss = <<>> THEN <<>> ELSE Head(ss) \o Flatten(Tail(ss))

(***************************************************************************)
(* Values and records.  A value is a numpy array (kind "ndarray", with its *)
(* shape and its entries along the leading axis) or a Python scalar (kind  *)
(* "int" or "str", shape <<>>).  A record maps field names to values.      *)
(***************************************************************************)
NdArray(entries) == [kind |-> "ndarray", shape |-> <<Len(entries)>>, data |-> entries]
Scalar(v) == [kind |-> "int", shape |-> <<>>, data |-> <<v>>]
Str(v) == [kind |-> "str", shape |-> <<>>, data |-> <<v>>]

\* The record number i of a source: two arrays with leading-axis lengths ld
\* and lc, and the reserved scalar seq_idx.  Entries are distinct over the
\* whole source, so that every slice identifies its origin.
MakeRecord(i, ld, lc) ==
    [data    |-> NdArray([j \in 1..ld |-> 100 * i + j]),
     classes |-> NdArray([j \in 1..lc |-> 100 * i + 50 + j]),
     seq_tag |-> Str(i),
     seq_idx |-> Scalar(i)]

\* the fields of a record, in the order the source lists them
KeyOrder == <<"data", "classes", "seq_tag", "seq_idx">>

\* the (data, classes) lengths of a record: "data" has 1..MaxLen entries
\* beside a "classes" of one entry, or "classes" is the longer of the two
Shapes == { <<ld, 1>> : ld \in 1..MaxLen } \cup { <<1, 2>> }

Datasets ==
    UNION { { [i \in 1..n |-> MakeRecord(i, sh[i][1], sh[i][2])] : sh \in [1..n -> Shapes] }
            : n \in 0..MaxRecords }

(***************************************************************************)
(* NumbersDict (returnn.util.basic): a map from field names to numbers     *)
(* with an optional broadcast value for the fields it does not list.       *)
(* value is <<>> (None) or <<v>>.                                          *)
(***************************************************************************)
NumbersDictOfInt(v) == [dict |-> [k \in {} |-> 0], value |-> <<v>>]
NumbersDictOfDict(d) == [dict |-> d, value |-> <<>>]

NdKeys(nd) == DOMAIN nd.dict
NdHas(nd, k) == k \in DOMAIN nd.dict \/ nd.value # <<>>
NdGet(nd, k) == IF k \in DOMAIN nd.dict THEN nd.dict[k] ELSE nd.value[1]

\* NumbersDict.min_value
NdMinValue(nd) ==
    LET vals == { nd.dict[k] : k \in DOMAIN nd.dict }
                \cup (IF nd.value = <<>> THEN {} ELSE {nd.value[1]})
    IN CHOOSE m \in vals : \A v \in vals : m <= v

\* NumbersDict.max([a, b]): elementwise maximum; a side that has no number
\* for a field leaves the other side's number.
NdMax(a, b) ==
    [dict  |-> [k \in NdKeys(a) \cup NdKeys(b) |->
                  IF NdHas(a, k) /\ NdHas(b, k) THEN Max2(NdGet(a, k), NdGet(b, k))
                  ELSE IF NdHas(a, k) THEN NdGet(a, k) ELSE NdGet(b, k)],
     value |-> IF a.value # <<>> /\ b.value # <<>> THEN <<Max2(a.value[1], b.value[1])>>
               ELSE IF a.value # <<>> THEN a.value ELSE b.value]

\* NumbersDict.__mul__ with an int: elementwise product
NdMul(a, n) ==
    [dict  |-> [k \in NdKeys(a) |-> a.dict[k] * n],
     value |-> IF a.value = <<>> THEN <<>> ELSE <<a.value[1] * n>>]

\* the comparison of line 257 slipped to >= (a record that fills the budget
\* exactly is turned away) and to < (the test reversed)
GreaterOrEqual(a, b) == a >= b
LessThan(a, b) == a < b

\* line 257: the comparison handed to any_compare, (lambda a, b: a > b)
GreaterThan(a, b) == a > b

\* a.any_compare(b, cmp) with the cmp of line 257: cmp holds of some field
\* of a and b's number for it; a field b has no number for is unbounded.
NdAnyCompare(a, b) ==
    \/ \E k \in NdKeys(a) : NdHas(b, k) /\ GreaterThan(a.dict[k], NdGet(b, k))
    \/ a.value # <<>> /\ b.value # <<>> /\ GreaterThan(a.value[1], b.value[1])

(***************************************************************************)
(* BatchingIterDataPipe.__init__                                           *)
(***************************************************************************)
\* the batch_size arguments tried: None, an int from -1 on, or a dict over
\* the array fields with entries from 0 on
BudgetDicts ==
    UNION { [ks -> 0..MaxBudget] : ks \in (SUBSET {"data", "classes"}) \ {{}} }
BatchSizeArgs ==
    {[kind |-> "none", int |-> 0, dict |-> [k \in {} |-> 0]]}
    \cup { [kind |-> "int", int |-> b, dict |-> [k \in {} |-> 0]] : b \in -1..MaxBudget }
    \cup { [kind |-> "dict", int |-> 0, dict |-> d] : d \in BudgetDicts }
\* the max_seqs arguments tried: None (0 here), or an int from -2 on
MaxSeqsArgs == {[kind |-> "none", int |-> 0]}
               \cup { [kind |-> "int", int |-> m] : m \in -2..MaxSeqsBound }

\* line 224
InitMaxBatchSize(batch_size) ==
    IF batch_size.kind = "none" THEN NumbersDictOfInt(sys_maxsize)
    ELSE IF batch_size.kind = "int" THEN NumbersDictOfInt(batch_size.int)
    ELSE NumbersDictOfDict(batch_size.dict)

\* line 225
InitMaxSeqs(arg) ==
    IF arg.kind = "none" \/ arg.int = -1 THEN sys_maxsize ELSE arg.int

\* line 228 alone: the constructor without "assert self._max_seqs > 0"
InitAcceptsAnyMaxSeqs(batch_size, arg) ==
    NdMinValue(InitMaxBatchSize(batch_size)) > 0

\* lines 228-229: the two assertions of the constructor
InitAccepts(batch_size, arg) ==
    /\ NdMinValue(InitMaxBatchSize(batch_size)) > 0
    /\ InitMaxSeqs(arg) > 0

(***************************************************************************)
(* BatchingIterDataPipe.__iter__                                           *)
(***************************************************************************)
Fields(rec) == DOMAIN rec

\* lines 247-252: scalars are treated as length 1
sequence_lengths(rec) ==
    NumbersDictOfDict(
        [k \in Fields(rec) |->
            IF rec[k].kind = "ndarray" /\ Len(rec[k].shape) > 0 THEN rec[k].shape[1] ELSE 1])

\* line 254 without the running maximum: the lengths of the record alone
sequence_lengths_of_record(cur, rec) == sequence_lengths(rec)

\* line 254
max_sequence_lengths_if_included(cur, rec) == NdMax(cur, sequence_lengths(rec))

\* line 255 without the "+ 1": the cost of the batch before the record joins
batch_size_without_record(batch, cur, rec) ==
    NdMul(max_sequence_lengths_if_included(cur, rec), Len(batch))

\* line 255
batch_size_if_included(batch, cur, rec) ==
    NdMul(max_sequence_lengths_if_included(cur, rec), Len(batch) + 1)

\* line 257 without its first operand "current_batch and"
BudgetExceededAlsoEmpty(batch, cur, rec) ==
    NdAnyCompare(batch_size_if_included(batch, cur, rec), max_batch_size)

\* line 257: the condition of the budget flush
BudgetExceeded(batch, cur, rec) ==
    /\ batch # <<>>
    /\ NdAnyCompare(batch_size_if_included(batch, cur, rec), max_batch_size)

\* line 240 with the flush one record late
MaxSeqsExceeded(batch) == Len(batch) = max_seqs + 1

\* line 240 with the flush one record early
MaxSeqsNearlyReached(batch) == batch # <<>> /\ Len(batch) >= max_seqs - 1

\* line 240
MaxSeqsReached(batch) == Len(batch) = max_seqs

\* line 265 without "and not self._drop_last"
YieldsLastAlways(batch) == batch # <<>>

\* line 265
YieldsLast(batch) == batch # <<>> /\ ~drop_last

\* lines 222-229 and 236-237: the Batcher constructed and its generator started
BatchInit ==
    /\ dataset \in Datasets
    /\ \E bs \in BatchSizeArgs, ms \in MaxSeqsArgs :
          /\ InitAccepts(bs, ms)
          /\ max_batch_size = InitMaxBatchSize(bs)
          /\ max_seqs = InitMaxSeqs(ms)
    /\ drop_last \in BOOLEAN
    /\ current_batch = <<>>
    /\ current_max_sequence_lengths = NumbersDictOfInt(0)
    /\ data_dict = <<>>
    /\ pulled = 0
    /\ pc = "loop"
    /\ yielded = <<>>

\* the Batcher left aside, while the Chunker is studied
BatchIdle ==
    /\ dataset = <<>>
    /\ max_batch_size = NumbersDictOfInt(sys_maxsize)
    /\ max_seqs = sys_maxsize
    /\ drop_last = FALSE
    /\ current_batch = <<>>
    /\ current_max_sequence_lengths = NumbersDictOfInt(0)
    /\ data_dict = <<>>
    /\ pulled = 0
    /\ pc = "idle"
    /\ yielded = <<>>

config == <<dataset, max_batch_size, max_seqs, drop_last>>

\* lines 239-241: the loop takes the next record, finds the batch full and
\* yields it; the generator is suspended at line 241.
YieldMaxSeqs ==
    /\ pc = "loop"
    /\ pulled < Len(dataset)
    /\ MaxSeqsReached(current_batch)
    /\ data_dict' = <<dataset[pulled + 1]>>
    /\ pulled' = pulled + 1
    /\ yielded' = Append(yielded, current_batch)
    /\ pc' = "yield_max_seqs"
    /\ UNCHANGED <<chunk_vars, call_vars>>
    /\ UNCHANGED <<config, current_batch, current_max_sequence_lengths>>

\* line 262 with the record put in front of the batch
PrependRecord(batch, cur, rec) ==
    /\ current_batch' = <<rec>> \o batch
    /\ current_max_sequence_lengths' = max_sequence_lengths_if_included(cur, rec)

\* lines 262-263 on the record rec, from accumulators (batch, cur): the
\* else branch of the budget test of line 257.
AppendRecord(batch, cur, rec) ==
    /\ current_batch' = Append(batch, rec)
    /\ current_max_sequence_lengths' = max_sequence_lengths_if_included(cur, rec)

\* lines 242-263: resumed after the max_seqs yield, the generator resets the
\* accumulators (lines 242-243) and goes on with the record it holds: the
\* test of line 257 on the reset accumulators, then line 258 or lines 262-263.
ResumeMaxSeqs ==
    /\ pc = "yield_max_seqs"
    /\ LET batch == <<>>
           cur == NumbersDictOfInt(0)
           rec == data_dict[1]
       IN IF BudgetExceeded(batch, cur, rec)
          THEN /\ yielded' = Append(yielded, batch)
               /\ current_batch' = batch
               /\ current_max_sequence_lengths' = cur
               /\ pc' = "yield_budget"
          ELSE /\ AppendRecord(batch, cur, rec)
               /\ yielded' = yielded
               /\ pc' = "loop"
    /\ UNCHANGED <<chunk_vars, call_vars>>
    /\ UNCHANGED <<config, data_dict, pulled>>

\* lines 239-258: the next record does not fit the budget of the non-empty
\* batch; the batch is yielded, the generator is suspended at line 258.
YieldBudget ==
    /\ pc = "loop"
    /\ pulled < Len(dataset)
    /\ ~MaxSeqsReached(current_batch)
    /\ BudgetExceeded(current_batch, current_max_sequence_lengths, dataset[pulled + 1])
    /\ data_dict' = <<dataset[pulled + 1]>>
    /\ pulled' = pulled + 1
    /\ yielded' = Append(yielded, current_batch)
    /\ pc' = "yield_budget"
    /\ UNCHANGED <<chunk_vars, call_vars>>
    /\ UNCHANGED <<config, current_batch, current_max_sequence_lengths>>

\* lines 259-260: resumed after the budget yield
ResumeBudget ==
    /\ pc = "yield_budget"
    /\ current_batch' = <<data_dict[1]>>
    /\ current_max_sequence_lengths' = sequence_lengths(data_dict[1])
    /\ pc' = "loop"
    /\ UNCHANGED <<chunk_vars, call_vars>>
    /\ UNCHANGED <<config, data_dict, pulled, yielded>>

\* lines 239-263, else branch: the next record joins the batch in progress
Include ==
    /\ pc = "loop"
    /\ pulled < Len(dataset)
    /\ ~MaxSeqsReached(current_batch)
    /\ ~BudgetExceeded(current_batch, current_max_sequence_lengths, dataset[pulled + 1])
    /\ data_dict' = <<dataset[pulled + 1]>>
    /\ pulled' = pulled + 1
    /\ AppendRecord(current_batch, current_max_sequence_lengths, dataset[pulled + 1])
    /\ UNCHANGED <<chunk_vars, call_vars>>
    /\ UNCHANGED <<config, pc, yielded>>

\* lines 265-266: the source is exhausted and the rest is yielded
YieldLast ==
    /\ pc = "loop"
    /\ pulled = Len(dataset)
    /\ YieldsLast(current_batch)
    /\ yielded' = Append(yielded, current_batch)
    /\ pc' = "yield_last"
    /\ UNCHANGED <<chunk_vars, call_vars>>
    /\ UNCHANGED <<config, current_batch, current_max_sequence_lengths, data_dict, pulled>>

\* line 265 false, or resumed after line 266: the generator returns
Finish ==
    /\ \/ pc = "loop" /\ pulled = Len(dataset) /\ ~YieldsLast(current_batch)
       \/ pc = "yield_last"
    /\ pc' = "done"
    /\ UNCHANGED <<chunk_vars, call_vars>>
    /\ UNCHANGED <<config, current_batch, current_max_sequence_lengths, data_dict, pulled, yielded>>

BatchNext ==
    \/ YieldMaxSeqs
    \/ ResumeMaxSeqs
    \/ YieldBudget
    \/ ResumeBudget
    \/ Include
    \/ YieldLast
    \/ Finish

(***************************************************************************)
(* ChunkingIterDataPipe._parse_chunking                                    *)
(***************************************************************************)
NoDict == [k \in {} |-> 0]
ArgNone == [kind |-> "none", int |-> 0, dict |-> NoDict]
ArgInt(n) == [kind |-> "int", int |-> n, dict |-> NoDict]
ArgDict(d) == [kind |-> "dict", int |-> 0, dict |-> d]

\* NumbersDict(x) for x an int, a dict or a NumbersDict
ToNumbersDict(x) ==
    IF x.kind = "int" THEN NumbersDictOfInt(x.int)
    ELSE IF x.kind = "dict" THEN NumbersDictOfDict(x.dict)
    ELSE x.nd

\* lines 187-198 without the assertion of line 197
ParseChunkingStepUnchecked(size, step) ==
    LET size0 == IF size.kind = "none" THEN ArgInt(0) ELSE size
        cs    == ToNumbersDict(size0)
        okS   == NdMinValue(cs) > 0
        step0 == IF step.kind = "none" \/ (step.kind = "int" /\ step.int = 0)
                 THEN [kind |-> "nd", int |-> 0, dict |-> NoDict, nd |-> cs]
                 ELSE step
        st    == ToNumbersDict(step0)
        okK   == NdKeys(st) = NdKeys(cs)
    IN [ok |-> okS /\ okK, chunk_size |-> cs, chunk_step |-> st]

\* lines 187-198 on the pair (size, step) that lines 184-186 made of the
\* argument: the parsed pair, or ok = FALSE when an assertion fails.  (The
\* str and callable forms of the argument, lines 177-183, are left out.)
ParseChunking(size, step) ==
    LET size0 == IF size.kind = "none" THEN ArgInt(0) ELSE size               \* 187-188
        cs    == ToNumbersDict(size0)                                         \* 190
        okS   == NdMinValue(cs) > 0                                           \* 191
        step0 == IF step.kind = "none" \/ (step.kind = "int" /\ step.int = 0)
                 THEN [kind |-> "nd", int |-> 0, dict |-> NoDict, nd |-> cs]  \* 192-193
                 ELSE step
        st    == ToNumbersDict(step0)                                         \* 195
        okK   == NdKeys(st) = NdKeys(cs)                                      \* 196
        okT   == NdMinValue(st) > 0                                           \* 197
    IN [ok |-> okS /\ okK /\ okT, chunk_size |-> cs, chunk_step |-> st]

\* the chunking arguments tried, as (size, step) pairs: a single value x is
\* the pair (x, None) (lines 184-185).  Sizes: None, an int from -1 on, a
\* dict with entries from 0 on; steps: None, an int from -1 on, a dict
\* with entries from -1 on.
ChunkKeySets == {{"data"}, {"data", "classes"}}
SizeArgs == {ArgNone}
            \cup { ArgInt(n) : n \in -1..MaxChunkSize }
            \cup { ArgDict(d) : d \in UNION { [ks -> 0..MaxChunkSize] : ks \in ChunkKeySets } }
StepArgs == {ArgNone}
            \cup { ArgInt(n) : n \in -1..MaxChunkStep }
            \cup { ArgDict(d) : d \in UNION { [ks -> -1..MaxChunkStep] : ks \in ChunkKeySets } }

(***************************************************************************)
(* ChunkingIterDataPipe.__iter__                                           *)
(***************************************************************************)
Min2(a, b) == IF a <= b THEN a ELSE b

\* Python's range(start, stop, step) as a list, step > 0
RECURSIVE Range(_, _, _)
Range(start, stop, step) ==
    IF start >= stop THEN <<>> ELSE <<start>> \o Range(start + step, stop, step)

\* Python's s[lo:hi] for 0 <= lo <= hi: both ends are clipped to len(s)
Slice(s, lo, hi) ==
    LET l == Min2(lo, Len(s))
        h == Min2(hi, Len(s))
    IN IF h <= l THEN <<>> ELSE SubSeq(s, l + 1, h)

\* a list of field names in the order of KeyOrder
KeyList(ks) == SelectSeq(KeyOrder, LAMBDA k : k \in ks)

\* line 115
ConfiguredKeys == KeyList(NdKeys(chunk_size))

\* lines 119-124: with no configured key, every field of the first record
\* but seq_tag and seq_idx
ActiveKeys(keys, rec) ==
    IF keys = <<>> THEN KeyList(DOMAIN rec \ {"seq_tag", "seq_idx"}) ELSE keys

\* line 136 with the starts taken chunk_size apart
ChunksStrideSize(rec, data_key) ==
    LET size == NdGet(chunk_size, data_key)
        data == rec[data_key].data
        starts == Range(0, Len(data), size)
    IN [n \in 1..Len(starts) |-> NdArray(Slice(data, starts[n], starts[n] + size))]

\* line 136 with windows of chunk_step entries
ChunksWindowStep(rec, data_key) ==
    LET step == NdGet(chunk_step, data_key)
        data == rec[data_key].data
        starts == Range(0, Len(data), step)
    IN [n \in 1..Len(starts) |-> NdArray(Slice(data, starts[n], starts[n] + step))]

\* lines 131-137: the windows of one field
Chunks(rec, data_key) ==
    LET size == NdGet(chunk_size, data_key)
        step == NdGet(chunk_step, data_key)
        data == rec[data_key].data
        starts == Range(0, Len(data), step)
    IN [n \in 1..Len(starts) |-> NdArray(Slice(data, starts[n], starts[n] + size))]

\* lines 127-146: data_chunks after the loop over the active fields
DataChunks(keys, rec) ==
    [k \in { keys[n] : n \in 1..Len(keys) } |-> Chunks(rec, k)]

\* lines 142-144 only asking that no field gives fewer windows than the
\* first one: the windows beyond num_chunks are then left out silently
AtLeastAsManyChunks(keys, rec) ==
    \A n \in 1..Len(keys) : Len(Chunks(rec, keys[n])) >= Len(Chunks(rec, keys[1]))

\* lines 139-144: every field gives as many windows as the first one
ConsistentChunks(keys, rec) ==
    \A n \in 1..Len(keys) : Len(Chunks(rec, keys[n])) = Len(Chunks(rec, keys[1]))

\* line 140: num_chunks is the number of windows of the first field
NumChunks(keys, rec) == Len(Chunks(rec, keys[1]))

\* line 148 with the assertion taken out
NoChunkIgnored(keys, rec) == FALSE

\* line 148: "assert num_chunks" fails
NoChunkProduced(keys, rec) == NumChunks(keys, rec) = 0

\* line 149 with the loop left one chunk record early
LastButOneChunkYielded == chunk_index + 2 >= num_chunks

\* line 149: range(num_chunks) is exhausted after the chunk record in hand
LastChunkYielded == chunk_index + 1 >= num_chunks

\* lines 150-159: the chunk record number chunk_index (0-based); the fields
\* that are not chunked are copied from the source record
ChunkData(chunks, rec, idx) ==
    [k \in DOMAIN rec |-> IF k \in DOMAIN chunks THEN chunks[k][idx + 1] ELSE rec[k]]

(***************************************************************************)
(* Object identity of the fields that are not chunked.  The object <<k, 0>>*)
(* is the value of field k held by the source record; <<k, c>> with c > 0  *)
(* is the copy made for the c-th chunk record.  objects maps the objects   *)
(* of the record in hand to their present contents.                        *)
(***************************************************************************)
\* line 157
NonChunked(chunks, rec) == DOMAIN rec \ DOMAIN chunks

\* numpy arrays can be written in place; Python str and int cannot
Mutable(v) == v.kind = "ndarray"

SourceObjects(chunks, rec) ==
    [id \in { <<k, 0>> : k \in NonChunked(chunks, rec) } |-> rec[id[1]]]

\* line 159 without copy.deepcopy: chunk_data.update(non_chunked_data)
SharedRefs(chunks, rec, idx) ==
    [k \in NonChunked(chunks, rec) |-> <<k, 0>>]

\* line 159: copy.deepcopy gives chunk record idx (0-based) a new object
\* for every array; it returns a str or an int itself
DeepCopyRefs(chunks, rec, idx) ==
    [k \in NonChunked(chunks, rec) |-> IF Mutable(rec[k]) THEN <<k, idx + 1>> ELSE <<k, 0>>]

\* the objects after line 159: a new object starts with the present
\* contents of the source record's object
Allocate(objs, refs) ==
    LET ids == { refs[k] : k \in DOMAIN refs }
    IN [id \in (DOMAIN objs) \cup ids |->
           IF id \in DOMAIN objs THEN objs[id] ELSE objs[<<id[1], 0>>]]

\* lines 105-109 and 115: the Chunker constructed and its generator started
ChunkInit ==
    /\ \E size \in SizeArgs, step \in StepArgs :
          LET parsed == ParseChunking(size, step)
          IN /\ parsed.ok
             /\ chunk_size = parsed.chunk_size
             /\ chunk_step = parsed.chunk_step
    /\ chunking_data_keys = ConfiguredKeys
    /\ chunk_dict = <<>>
    /\ data_chunks = NoDict
    /\ num_chunks = 0
    /\ chunk_index = 0
    /\ chunk_pulled = 0
    /\ chunk_pc = "loop"
    /\ chunk_error = ""
    /\ chunks_out = <<>>
    /\ chunks_total = 0
    /\ objects = NoDict
    /\ out_refs = <<>>

\* the Chunker left aside, while the Batcher is studied
ChunkIdle ==
    /\ chunk_size = NumbersDictOfInt(1)
    /\ chunk_step = NumbersDictOfInt(1)
    /\ chunking_data_keys = <<>>
    /\ chunk_dict = <<>>
    /\ data_chunks = NoDict
    /\ num_chunks = 0
    /\ chunk_index = 0
    /\ chunk_pulled = 0
    /\ chunk_pc = "idle"
    /\ chunk_error = ""
    /\ chunks_out = <<>>
    /\ chunks_total = 0
    /\ objects = NoDict
    /\ out_refs = <<>>

chunk_config == <<chunk_size, chunk_step>>

\* the records a source may give the Chunker as its record number i: both
\* arrays of any length from 0 on, so that line 125 (a record of reserved
\* fields only) never fails
ChunkShapes == (0..MaxChunkLen) \X (0..MaxChunkLen)
SourceRecords(i) == { MakeRecord(i, sh[1], sh[2]) : sh \in ChunkShapes }

\* lines 117-148 up to a failing assertion: the record taken, one of recs,
\* gives different numbers of windows (line 142) or no window at all
\* (line 148)
ChunkFailStep(recs) ==
    /\ chunk_pc = "loop"
    /\ chunk_pulled < MaxChunkRecords
    /\ \E rec \in recs :
          LET keys == ActiveKeys(chunking_data_keys, rec)
          IN /\ ~ConsistentChunks(keys, rec) \/ NoChunkProduced(keys, rec)
             /\ chunk_dict' = <<rec>>
             /\ chunking_data_keys' = keys
             /\ chunk_error' = IF ~ConsistentChunks(keys, rec)
                               THEN "different number of chunks"
                               ELSE "no chunk produced"
             /\ data_chunks' = NoDict
             /\ num_chunks' = 0
    /\ chunk_pulled' = chunk_pulled + 1
    /\ chunk_pc' = "failed"
    /\ chunks_out' = <<>>
    /\ objects' = NoDict
    /\ out_refs' = <<>>
    /\ UNCHANGED <<chunk_config, chunk_index, chunks_total>>

ChunkFail ==
    /\ ChunkFailStep(SourceRecords(chunk_pulled + 1))
    /\ UNCHANGED <<batch_vars, call_vars>>

\* lines 117-161 up to the first yield: the record taken, one of recs, is
\* cut into windows and the first chunk record is yielded; were num_chunks
\* 0 past line 148, the loop of line 149 would yield nothing and the
\* generator would be back at line 117
YieldFirstChunkStep(recs) ==
    /\ chunk_pc = "loop"
    /\ chunk_pulled < MaxChunkRecords
    /\ \E rec \in recs :
          LET keys == ActiveKeys(chunking_data_keys, rec)
              chunks == DataChunks(keys, rec)
              refs == DeepCopyRefs(chunks, rec, 0)
          IN /\ ConsistentChunks(keys, rec)
             /\ ~NoChunkProduced(keys, rec)
             /\ chunk_dict' = <<rec>>
             /\ chunking_data_keys' = keys
             /\ data_chunks' = chunks
             /\ num_chunks' = NumChunks(keys, rec)
             /\ IF NumChunks(keys, rec) = 0
                THEN /\ chunks_out' = <<>>
                     /\ out_refs' = <<>>
                     /\ objects' = SourceObjects(chunks, rec)
                     /\ chunks_total' = chunks_total
                     /\ chunk_pc' = "loop"
                ELSE /\ chunks_out' = <<ChunkData(chunks, rec, 0)>>
                     /\ out_refs' = <<refs>>
                     /\ objects' = Allocate(SourceObjects(chunks, rec), refs)
                     /\ chunks_total' = chunks_total + 1
                     /\ chunk_pc' = "yield"
    /\ chunk_index' = 0
    /\ chunk_pulled' = chunk_pulled + 1
    /\ UNCHANGED <<chunk_config, chunk_error>>

YieldFirstChunk ==
    /\ YieldFirstChunkStep(SourceRecords(chunk_pulled + 1))
    /\ UNCHANGED <<batch_vars, call_vars>>

\* lines 149-161: resumed after a yield, the loop yields the next chunk record
YieldNextChunkStep ==
    /\ chunk_pc = "yield"
    /\ ~LastChunkYielded
    /\ chunk_index' = chunk_index + 1
    /\ chunks_out' = Append(chunks_out, ChunkData(data_chunks, chunk_dict[1], chunk_index + 1))
    /\ LET refs == DeepCopyRefs(data_chunks, chunk_dict[1], chunk_index + 1)
       IN /\ out_refs' = Append(out_refs, refs)
          /\ objects' = Allocate(objects, refs)
    /\ chunks_total' = chunks_total + 1
    /\ UNCHANGED <<chunk_config, chunking_data_keys, chunk_dict, data_chunks, num_chunks,
                   chunk_pulled, chunk_pc, chunk_error>>

YieldNextChunk ==
    /\ YieldNextChunkStep
    /\ UNCHANGED <<batch_vars, call_vars>>

\* line 149 exhausted: resumed after the last chunk record, the generator
\* is back at line 117
ChunksExhaustedStep ==
    /\ chunk_pc = "yield"
    /\ LastChunkYielded
    /\ chunk_pc' = "loop"
    /\ UNCHANGED <<chunk_config, chunking_data_keys, chunk_dict, data_chunks, num_chunks,
                   chunk_index, chunk_pulled, chunk_error, chunks_out, chunks_total,
                   objects, out_refs>>

ChunksExhausted ==
    /\ ChunksExhaustedStep
    /\ UNCHANGED <<batch_vars, call_vars>>

\* line 117: the source ends (here or after any record) and the generator returns
ChunkFinishStep ==
    /\ chunk_pc = "loop"
    /\ chunk_pc' = "done"
    /\ UNCHANGED <<chunk_config, chunking_data_keys, chunk_dict, data_chunks, num_chunks,
                   chunk_index, chunk_pulled, chunk_error, chunks_out, chunks_total,
                   objects, out_refs>>

ChunkFinish ==
    /\ ChunkFinishStep
    /\ UNCHANGED <<batch_vars, call_vars>>

ChunkNext ==
    \/ ChunkFail
    \/ YieldFirstChunk
    \/ YieldNextChunk
    \/ ChunksExhausted
    \/ ChunkFinish

\* an array written over in place, as by arr[...] = 0
Overwrite(v) == [v EXCEPT !.data = [j \in 1..Len(v.data) |-> 0]]
Overwritten(v) == Mutable(v) /\ \E j \in 1..Len(v.data) : v.data[j] = 0

\* The consumer, in control while the generator is suspended at the yield
\* of line 161 or has returned, writes over an array that a chunk record
\* it was given refers to in a field that is not chunked.  One write per
\* source record is followed.
Mutate ==
    /\ chunk_pc \in {"yield", "done"}
    /\ \A id \in DOMAIN objects : ~Overwritten(objects[id])
    /\ \E n \in 1..Len(out_refs) : \E k \in DOMAIN out_refs[n] :
          /\ Mutable(objects[out_refs[n][k]])
          /\ objects[out_refs[n][k]].data # <<>>
          /\ objects' = [objects EXCEPT ![out_refs[n][k]] = Overwrite(@)]
    /\ UNCHANGED <<chunk_config, chunking_data_keys, chunk_dict, data_chunks, num_chunks,
                   chunk_index, chunk_pulled, chunk_pc, chunk_error, chunks_out, chunks_total,
                   out_refs>>
    /\ UNCHANGED <<batch_vars, call_vars>>

AliasNext == ChunkNext \/ Mutate

(***************************************************************************)
(* collate_batch                                                           *)
(*                                                                         *)
(* An array of two axes has a sequence of rows as its data; an array of no *)
(* axis has its one number.  A torch.Tensor is a value of kind "tensor".   *)
(***************************************************************************)
NdArray2(rows, width) == [kind |-> "ndarray", shape |-> <<Len(rows), width>>, data |-> rows]
NdArray0(v) == [kind |-> "ndarray", shape |-> <<>>, data |-> <<v>>]
Tensor(shape, data) == [kind |-> "tensor", shape |-> shape, data |-> data]
List(ls) == [kind |-> "list", shape |-> <<Len(ls)>>, data |-> ls]

\* The record number i of a batch: "data" of l rows and w columns,
\* "classes" of lc entries, "score" an array of no axis, and the int
\* seq_idx.  Entries are distinct over the batch and none is 0.
CollateRecord(i, l, w, lc) ==
    [data    |-> NdArray2([r \in 1..l |-> [c \in 1..w |-> 100 * i + 10 * r + c]], w),
     classes |-> NdArray([j \in 1..lc |-> 100 * i + 50 + j]),
     score   |-> NdArray0(100 * i + 99),
     seq_idx |-> Scalar(i)]

\* (rows, columns, classes) of a record: "classes" has one entry or MaxLen
CollateShapes == (1..MaxLen) \X (1..MaxWidth) \X {1, MaxLen}

\* the batches of n records tried (the empty list for n = 0)
Batches(n) ==
    { [i \in 1..n |-> CollateRecord(i, sh[i][1], sh[i][2], sh[i][3])]
      : sh \in [1..n -> CollateShapes] }

\* lines 36-51: anything but a numpy array is returned as it is; an array
\* becomes a tensor of the same shape and entries (the uint32 case changes
\* the dtype only)
create_tensor(v) ==
    IF v.kind # "ndarray" THEN v ELSE Tensor(v.shape, v.data)

\* a zero-filled block of the given shape
RECURSIVE Zeros(_)
Zeros(shape) ==
    IF shape = <<>> THEN 0 ELSE [j \in 1..shape[1] |-> Zeros(Tail(shape))]

MaxOf(S) == CHOOSE m \in S : \A x \in S : x <= m

\* the shape below the leading axis
Trailing(t) == Tail(t.shape)

\* Tensor.copy_, by which pad_sequence fills the container, broadcasts its
\* source: a tensor whose trailing shape is the container's is copied as it
\* is, an extent of 1 is repeated, and any other shape raises.  (Arrays
\* have at most two axes here, so a trailing shape is <<>> or <<w>>.)
Broadcastable(from, to) ==
    \/ from = to
    \/ Len(from) = 1 /\ Len(to) = 1 /\ from[1] = 1

\* one entry along the leading axis, of trailing shape from, as copied
\* into a container of trailing shape to
Broadcast(entry, from, to) ==
    IF from = to \/ ~Broadcastable(from, to) THEN entry
    ELSE [c \in 1..to[1] |-> entry[1]]

\* line 75 with the padding put in front of the entries
PadSequenceLeft(ls) ==
    LET max_len == MaxOf({ ls[i].shape[1] : i \in 1..Len(ls) })
        trailing == Trailing(ls[1])
    IN [ok |-> \A i \in 1..Len(ls) : Broadcastable(Trailing(ls[i]), trailing),
        tensor |-> Tensor(<<Len(ls), max_len>> \o trailing,
                          [i \in 1..Len(ls) |->
                              [j \in 1..max_len |->
                                  IF j > max_len - ls[i].shape[1]
                                  THEN Broadcast(ls[i].data[j - (max_len - ls[i].shape[1])],
                                                 Trailing(ls[i]), trailing)
                                  ELSE Zeros(trailing)]])]

\* line 75: torch.nn.utils.rnn.pad_sequence(ls, batch_first=True,
\* padding_value=0).  The container has the longest leading extent of ls
\* and the trailing shape of ls[0]; each tensor is copied to the start of
\* its row, which raises when its trailing shape cannot be broadcast to
\* the container's.
PadSequence(ls) ==
    LET max_len == MaxOf({ ls[i].shape[1] : i \in 1..Len(ls) })
        trailing == Trailing(ls[1])
    IN [ok |-> \A i \in 1..Len(ls) : Broadcastable(Trailing(ls[i]), trailing),
        tensor |-> Tensor(<<Len(ls), max_len>> \o trailing,
                          [i \in 1..Len(ls) |->
                              [j \in 1..max_len |->
                                  IF j <= ls[i].shape[1]
                                  THEN Broadcast(ls[i].data[j], Trailing(ls[i]), trailing)
                                  ELSE Zeros(trailing)]])]

\* line 78: torch.stack of tensors of no axis
Stack(ls) == Tensor(<<Len(ls)>>, [i \in 1..Len(ls) |-> ls[i].data[1]])

\* line 76: "%s:size%i" % (key, i)
SizeKey(key, i) == key \o ":size" \o ToString(i)

\* line 76 with the extent of the padded container in place of each
\* tensor's own
PaddedSizes(ls, axis) ==
    Tensor(<<Len(ls)>>, [n \in 1..Len(ls) |-> MaxOf({ ls[m].shape[axis] : m \in 1..Len(ls) })])

\* line 76: torch.tensor([v.shape[i] for v in ls]), axis = i + 1
SizesOfAxis(ls, axis) ==
    Tensor(<<Len(ls)>>, [n \in 1..Len(ls) |-> ls[n].shape[axis]])

\* line 66
TensorList(b, key) == [n \in 1..Len(b) |-> create_tensor(b[n][key])]

\* lines 65-81 for one key, were line 75 never to raise
KeyNeverRaises(b, key) == FALSE

\* lines 65-81 for one key: whether line 75 raises
KeyRaises(b, key) ==
    LET ls == TensorList(b, key)
    IN /\ ls[1].kind = "tensor"
       /\ Len(ls[1].shape) > 0
       /\ ~PadSequence(ls).ok

\* lines 65-81 for one key: the entries written to res, as <<name, value>>
KeyEntries(b, key) ==
    LET ls == TensorList(b, key)
    IN IF ls[1].kind # "tensor" THEN { <<key, List(ls)>> }                    \* 68-71
       ELSE LET num_axis == Len(ls[1].shape)                                  \* 73
                padded == IF num_axis > 0 THEN PadSequence(ls).tensor         \* 74-75
                          ELSE Stack(ls)                                      \* 77-78
            IN {<<key, padded>>}                                              \* 80
               \cup { <<SizeKey(key, axis), SizesOfAxis(ls, axis)>> : axis \in 1..num_axis } \* 76
               \cup {<<SizeKey(key, 0), Tensor(<<>>, <<Len(ls)>>)>>}          \* 81

\* lines 63-83: res when no line raises
CollateResult(b) ==
    LET entries == UNION { KeyEntries(b, key) : key \in DOMAIN b[1] }
    IN [name \in { e[1] : e \in entries } |-> (CHOOSE e \in entries : e[1] = name)[2]]

\* lines 61-62 pass and no key raises
CollateReturns(b) ==
    /\ b # <<>>
    /\ \A key \in DOMAIN b[1] : ~KeyRaises(b, key)

\* collate_batch is about to be called on a batch
CollateInit ==
    /\ \E n \in 0..MaxCollateSeqs : batch_arg \in Batches(n)
    /\ res = NoDict
    /\ collate_pc = "call"
    /\ args = <<>>

\* lines 54-83: one call of collate_batch, which returns res or raises
CollateBatch ==
    /\ collate_pc = "call"
    /\ IF CollateReturns(batch_arg)
       THEN /\ res' = CollateResult(batch_arg)
            /\ collate_pc' = "return"
       ELSE /\ res' = NoDict
            /\ collate_pc' = "raise"
    /\ UNCHANGED <<args, batch_arg>>
    /\ UNCHANGED <<batch_vars, chunk_vars>>

\* no call of collate_batch is under study
CollateIdle ==
    /\ batch_arg = <<>>
    /\ res = NoDict
    /\ collate_pc = "idle"

\* no constructor and no collate_batch call is under study
CallIdle ==
    /\ args = <<>>
    /\ CollateIdle

(***************************************************************************)
(* The composed pipeline: BatchingIterDataPipe(ChunkingIterDataPipe(...)). *)
(* The Batcher's source is the Chunker's generator: line 239 resumes it,   *)
(* and it runs up to its next yield, to its end, or to a failing           *)
(* assertion, which then leaves line 239 as an exception.  dataset is the  *)
(* sequence of chunk records the Chunker has handed over so far.           *)
(***************************************************************************)
\* the chunkings of the pipeline: windows of 2 side by side, windows of 2
\* that overlap, and windows of 2 of "data" alone
PipeChunkings ==
    { <<NumbersDictOfInt(2), NumbersDictOfInt(2)>>,
      <<NumbersDictOfInt(2), NumbersDictOfInt(1)>>,
      <<NumbersDictOfDict([data |-> 2]), NumbersDictOfDict([data |-> 2])>> }

\* the source records of the pipeline, as (data, classes) lengths
PipeShapes == { <<0, 0>>, <<2, 2>>, <<3, 3>>, <<3, 1>> }
PipeRecords(i) == { MakeRecord(i, sh[1], sh[2]) : sh \in PipeShapes }

\* lines 222-229, 236-237 and 105-115: both pipes constructed, the
\* Batcher's generator started, nothing taken from the Chunker yet
PipeInit ==
    /\ dataset = <<>>
    /\ max_batch_size \in { NumbersDictOfInt(sys_maxsize), NumbersDictOfInt(3),
                            NumbersDictOfInt(4) }
    /\ max_seqs \in { sys_maxsize, 2 }
    /\ \E c \in PipeChunkings : chunk_size = c[1] /\ chunk_step = c[2]
    /\ BatchInit
    /\ ChunkInit
    /\ CallIdle

\* line 239: the Batcher's loop asks its source for the next record
Demand == pc = "loop" /\ pulled = Len(dataset)

\* line 239 taking a failing source for an exhausted one
SourceEndedOrFailed == chunk_pc \in {"done", "failed"}

\* line 239: the loop ends when the source's generator has returned
SourceEnded == chunk_pc = "done"

PipeChunkFail ==
    /\ Demand
    /\ ChunkFailStep(PipeRecords(chunk_pulled + 1))
    /\ UNCHANGED <<batch_vars, call_vars>>

\* line 161 under line 239: the chunk record yielded is the Batcher's next
\* data_dict
PipeYieldFirstChunk ==
    /\ Demand
    /\ YieldFirstChunkStep(PipeRecords(chunk_pulled + 1))
    /\ dataset' = dataset \o chunks_out'
    /\ UNCHANGED <<max_batch_size, max_seqs, drop_last, current_batch,
                   current_max_sequence_lengths, data_dict, pulled, pc, yielded>>
    /\ UNCHANGED call_vars

PipeYieldNextChunk ==
    /\ Demand
    /\ YieldNextChunkStep
    /\ dataset' = Append(dataset, chunks_out'[Len(chunks_out')])
    /\ UNCHANGED <<max_batch_size, max_seqs, drop_last, current_batch,
                   current_max_sequence_lengths, data_dict, pulled, pc, yielded>>
    /\ UNCHANGED call_vars

PipeChunksExhausted ==
    /\ Demand
    /\ ChunksExhaustedStep
    /\ UNCHANGED <<batch_vars, call_vars>>

PipeChunkFinish ==
    /\ Demand
    /\ ChunkFinishStep
    /\ UNCHANGED <<batch_vars, call_vars>>

\* line 239: the Chunker's assertion error leaves BatchingIterDataPipe's
\* generator, which is then finished without a yield
PipeRaise ==
    /\ Demand
    /\ chunk_pc = "failed"
    /\ pc' = "failed"
    /\ UNCHANGED <<config, current_batch, current_max_sequence_lengths, data_dict, pulled,
                   yielded>>
    /\ UNCHANGED <<chunk_vars, call_vars>>

\* lines 265-266, reached when the Chunker has returned
PipeYieldLast == SourceEnded /\ YieldLast

PipeFinish == (pc = "yield_last" \/ SourceEnded) /\ Finish

PipeNext ==
    \/ PipeChunkFail
    \/ PipeYieldFirstChunk
    \/ PipeYieldNextChunk
    \/ PipeChunksExhausted
    \/ PipeChunkFinish
    \/ PipeRaise
    \/ YieldMaxSeqs
    \/ ResumeMaxSeqs
    \/ YieldBudget
    \/ ResumeBudget
    \/ Include
    \/ PipeYieldLast
    \/ PipeFinish

(***************************************************************************)
(* The constructors, called on any arguments                               *)
(***************************************************************************)
\* ChunkingIterDataPipe(dataset, chunking) is about to be called with
\* chunking = args = (size, step)
ChunkerNew ==
    /\ args \in SizeArgs \X StepArgs
    /\ chunk_size = NumbersDictOfInt(1)
    /\ chunk_step = NumbersDictOfInt(1)
    /\ chunking_data_keys = <<>>
    /\ chunk_dict = <<>>
    /\ data_chunks = NoDict
    /\ num_chunks = 0
    /\ chunk_index = 0
    /\ chunk_pulled = 0
    /\ chunk_pc = "new"
    /\ chunk_error = ""
    /\ chunks_out = <<>>
    /\ chunks_total = 0
    /\ objects = NoDict
    /\ out_refs = <<>>

\* lines 92-109: ChunkingIterDataPipe.__init__; an assertion of
\* _parse_chunking that fails ends the call and no Chunker exists
ChunkerConstruct ==
    /\ chunk_pc = "new"
    /\ LET parsed == ParseChunking(args[1], args[2])
       IN IF parsed.ok
          THEN /\ chunk_size' = parsed.chunk_size
               /\ chunk_step' = parsed.chunk_step
               /\ chunk_pc' = "constructed"
          ELSE /\ UNCHANGED chunk_config
               /\ chunk_pc' = "rejected"
    /\ UNCHANGED <<chunking_data_keys, chunk_dict, data_chunks, num_chunks, chunk_index,
                   chunk_pulled, chunk_error, chunks_out, chunks_total, objects, out_refs>>
    /\ UNCHANGED <<batch_vars, call_vars>>

\* BatchingIterDataPipe(dataset, batch_size, max_seqs) is about to be
\* called with (batch_size, max_seqs) = args
BatcherNew ==
    /\ args \in BatchSizeArgs \X MaxSeqsArgs
    /\ dataset = <<>>
    /\ max_batch_size = NumbersDictOfInt(sys_maxsize)
    /\ max_seqs = sys_maxsize
    /\ drop_last = FALSE
    /\ current_batch = <<>>
    /\ current_max_sequence_lengths = NumbersDictOfInt(0)
    /\ data_dict = <<>>
    /\ pulled = 0
    /\ pc = "new"
    /\ yielded = <<>>

\* lines 211-229: BatchingIterDataPipe.__init__; an assertion that fails
\* ends the call and no Batcher exists
BatcherConstruct ==
    /\ pc = "new"
    /\ IF InitAccepts(args[1], args[2])
       THEN /\ max_batch_size' = InitMaxBatchSize(args[1])
            /\ max_seqs' = InitMaxSeqs(args[2])
            /\ pc' = "constructed"
       ELSE /\ UNCHANGED <<max_batch_size, max_seqs>>
            /\ pc' = "rejected"
    /\ UNCHANGED <<dataset, drop_last, current_batch, current_max_sequence_lengths,
                   data_dict, pulled, yielded>>
    /\ UNCHANGED <<chunk_vars, call_vars>>

(***************************************************************************)
(* Specifications                                                          *)
(***************************************************************************)
Init == BatchInit /\ ChunkIdle /\ CallIdle

Next == BatchNext

\* the Batcher over a finite source
Spec == Init /\ [][Next]_vars

\* The consumer iterates to the end (a for loop over the pipe): a generator
\* that can be resumed is resumed.
FairSpec == Spec /\ WF_vars(Next)

\* the Chunker over a source of at most MaxChunkRecords records
ChunkSpecInit == ChunkInit /\ BatchIdle /\ CallIdle

ChunkSpec == ChunkSpecInit /\ [][ChunkNext]_vars

\* the Chunker with a field that is not chunked, and a consumer that writes
\* to the chunk records it is given
AliasInit == ChunkSpecInit /\ NdKeys(chunk_size) = {"data"}

AliasSpec == AliasInit /\ [][AliasNext]_vars

\* the Batcher over the Chunker over a source of at most MaxChunkRecords records
PipeSpec == PipeInit /\ [][PipeNext]_vars

\* one call of collate_batch
CollateSpecInit == CollateInit /\ BatchIdle /\ ChunkIdle

CollateSpec == CollateSpecInit /\ [][CollateBatch]_vars

\* one call of the Chunker's constructor
ChunkerNewInit == ChunkerNew /\ BatchIdle /\ CollateIdle

ChunkerNewSpec == ChunkerNewInit /\ [][ChunkerConstruct]_vars

\* one call of the Batcher's constructor
BatcherNewInit == BatcherNew /\ ChunkIdle /\ CollateIdle

BatcherNewSpec == BatcherNewInit /\ [][BatcherConstruct]_vars

(***************************************************************************)
(* Properties of the Batcher                                               *)
(***************************************************************************)
IsPrefix(s, t) == Len(s) <= Len(t) /\ SubSeq(t, 1, Len(s)) = s

\* length of a field value: extent of the leading axis, 1 for a scalar
LeadingLength(v) == IF v.kind = "ndarray" THEN Len(v.data) ELSE 1

\* the largest length of field k over the records of a batch (0 if empty)
MaxLengthIn(batch, k) ==
    IF batch = <<>> THEN 0
    ELSE LET ls == { LeadingLength(batch[i][k]) : i \in 1..Len(batch) }
         IN CHOOSE m \in ls : \A l \in ls : l <= m

\* the fields the budget bounds, among those of the records
AllFields == {"data", "classes", "seq_tag", "seq_idx"}
BudgetedFields == { k \in AllFields : NdHas(max_batch_size, k) }
Budget(k) == NdGet(max_batch_size, k)

\* C1: every batch yielded (at the max_seqs flush, at the budget flush and
\* at the end of the source) holds at most max_seqs records.
C1_BatchCardinality ==
    \A i \in 1..Len(yielded) : Len(yielded[i]) <= max_seqs

\* C1 witness: a batch of exactly max_seqs = 2 records was yielded by the
\* max_seqs flush.
C1_Witness ==
    /\ pc = "yield_max_seqs"
    /\ max_seqs = 2
    /\ Len(yielded[Len(yielded)]) = 2

\* C2: in every yielded batch of more than one record, for every budgeted
\* field, (largest length of the field in the batch) * (number of records)
\* is at most the budget of the field.
C2_BudgetBound ==
    \A i \in 1..Len(yielded) :
        Len(yielded[i]) > 1 =>
            \A k \in BudgetedFields :
                MaxLengthIn(yielded[i], k) * Len(yielded[i]) <= Budget(k)

\* C2 witness: after a batch of one record, a batch of two records was
\* yielded that fills the budget of "classes" exactly and stays below the
\* budget of "data".
C2_Witness ==
    /\ Len(yielded) = 2
    /\ {"data", "classes"} \subseteq BudgetedFields
    /\ Len(yielded[1]) = 1
    /\ Len(yielded[2]) = 2
    /\ MaxLengthIn(yielded[2], "classes") * 2 = Budget("classes")
    /\ MaxLengthIn(yielded[2], "data") * 2 < Budget("data")

\* C3: no yielded batch is empty.
C3_NoEmptyBatch ==
    \A i \in 1..Len(yielded) : yielded[i] # <<>>

\* C3 witness: the generator has returned after a flush in the loop and
\* the emission at the end of the source.
C3_Witness ==
    /\ pc = "done"
    /\ ~drop_last
    /\ Len(yielded) >= 2
    /\ yielded[Len(yielded)] = current_batch

\* C4: the yielded batches, concatenated, are always a prefix of the
\* source; when the generator has returned they are the whole source
\* (drop_last false) or the source without the discarded last group
\* (drop_last true).
C4_ArrivalOrder ==
    /\ IsPrefix(Flatten(yielded), dataset)
    /\ pc = "done" /\ ~drop_last => Flatten(yielded) = dataset
    /\ pc = "done" /\ drop_last => Flatten(yielded) \o current_batch = dataset

\* C4 witness: drop_last is set and the generator has returned, having
\* yielded a batch of two records and discarded a last group.
C4_Witness ==
    /\ pc = "done"
    /\ drop_last
    /\ Len(yielded) = 1 /\ Len(yielded[1]) = 2
    /\ current_batch # <<>>

\* the records of batch b occur in no yielded batch
InNoYieldedBatch(b) ==
    \A i \in 1..Len(yielded) : \A j \in 1..Len(yielded[i]) : \A n \in 1..Len(b) :
        yielded[i][j] # b[n]

\* C5: when the generator has returned with a non-empty batch in progress,
\* that batch is the last yielded one if drop_last is false, and none of
\* its records was yielded if drop_last is true.
C5_DropLast ==
    pc = "done" /\ current_batch # <<>> =>
        IF drop_last
        THEN InNoYieldedBatch(current_batch)
        ELSE yielded # <<>> /\ yielded[Len(yielded)] = current_batch

\* C5 witness: a non-empty last group of two records was discarded after
\* another batch had been yielded.
C5_Witness ==
    /\ pc = "done"
    /\ drop_last
    /\ Len(current_batch) = 2
    /\ yielded # <<>>

\* the record about to be pulled fits the batch in progress: for every
\* budgeted field, candidate_max * (len(current_batch) + 1) <= budget
NextRecordFits ==
    LET rec == dataset[pulled + 1]
    IN \A k \in BudgetedFields :
          Max2(MaxLengthIn(current_batch, k), LeadingLength(rec[k]))
              * (Len(current_batch) + 1) <= Budget(k)

\* C6: when the batch in progress is non-empty, holds fewer than max_seqs
\* records and the next record fits every budget (equality included), the
\* step that takes the record appends it and yields nothing.
C6_StrictComparison ==
    [][ ( /\ pc = "loop"
          /\ pulled < Len(dataset)
          /\ current_batch # <<>>
          /\ Len(current_batch) < max_seqs
          /\ NextRecordFits )
        => ( /\ yielded' = yielded
             /\ current_batch' = Append(current_batch, dataset[pulled + 1])
             /\ pulled' = pulled + 1 ) ]_vars

\* C6 witness: a second record was appended and the batch of two fills the
\* budget of "data" exactly; nothing was yielded.
C6_Witness ==
    /\ pc = "loop"
    /\ yielded = <<>>
    /\ Len(current_batch) = 2
    /\ "data" \in BudgetedFields
    /\ MaxLengthIn(current_batch, "data") * 2 = Budget("data")

\* the record alone exceeds the budget of one of its fields
ExceedsBudgetAlone(rec) ==
    \E k \in BudgetedFields : LeadingLength(rec[k]) > Budget(k)

\* the batch <<rec>> was yielded or is the batch in progress
InBatchOfItsOwn(rec) ==
    \/ \E i \in 1..Len(yielded) : yielded[i] = <<rec>>
    \/ current_batch = <<rec>>

\* what is left to do: the records not taken yet, and the steps the
\* generator has left with the record in hand
StepsLeft ==
    3 * (Len(dataset) - pulled)
    + (CASE pc \in {"yield_max_seqs", "yield_budget"} -> 3
         [] pc = "loop" -> 2
         [] pc = "yield_last" -> 1
         [] OTHER -> 0)

\* C7: a record that alone exceeds a budget shares no batch (yielded or in
\* progress) with another record and, once the generator is through with
\* it, is in a batch of its own.  The generator is never blocked: until it
\* has returned it can always take a step, and every step brings it nearer
\* to the end of the source, where every record has been taken.
C7_OversizedRecord ==
    /\ [](pc \in {"loop", "done"} =>
             \A i \in 1..pulled :
                 ExceedsBudgetAlone(dataset[i]) => InBatchOfItsOwn(dataset[i]))
    /\ [](\A i \in 1..Len(yielded) : \A j \in 1..Len(yielded[i]) :
             ExceedsBudgetAlone(yielded[i][j]) => Len(yielded[i]) = 1)
    /\ [](\A j \in 1..Len(current_batch) :
             ExceedsBudgetAlone(current_batch[j]) => Len(current_batch) = 1)
    /\ [](pc # "done" => ENABLED BatchNext)
    /\ [](pc = "done" => pulled = Len(dataset))
    /\ [][StepsLeft' < StepsLeft /\ StepsLeft' >= 0]_vars

\* the same end stated as a liveness property, for a consumer that keeps
\* iterating (FairSpec)
BatcherTerminates == <>(pc = "done" /\ pulled = Len(dataset))

\* C7 witness: the first of three records exceeds a budget alone; it was
\* yielded as a batch of one and the two records after it were taken.
C7_Witness ==
    /\ pc = "done"
    /\ Len(dataset) = 3
    /\ ExceedsBudgetAlone(dataset[1])
    /\ yielded # <<>> /\ yielded[1] = <<dataset[1]>>
    /\ pulled = 3

(***************************************************************************)
(* Properties of the Chunker                                               *)
(***************************************************************************)
\* the active fields, the source record in hand and its field lengths
ActiveFields == { chunking_data_keys[n] : n \in 1..Len(chunking_data_keys) }
SourceLength(k) == Len(chunk_dict[1][k].data)
SizeOf(k) == NdGet(chunk_size, k)
StepOf(k) == NdGet(chunk_step, k)

\* the number of window starts 0, step, 2*step, ... below the length
WindowCount(k) == Cardinality({ st \in 0..(SourceLength(k) - 1) : st % StepOf(k) = 0 })

\* every chunk of the record in hand has been yielded
RecordExhausted == chunk_pc \in {"loop", "done"}

\* all active fields of the record in hand have length L and step t
EqualLengths(L, t) ==
    \A k \in ActiveFields : SourceLength(k) = L /\ StepOf(k) = t

\* C8: a source record whose active fields all have length L >= 1, chunked
\* with step t >= 1, gives exactly 1 + floor((L-1)/t) chunk records,
\* whatever the chunk sizes: the Chunker does not fail on it, never yields
\* more, and has yielded that many when the record is exhausted.
C8_ChunkCount ==
    chunk_dict # <<>> =>
        \A L \in 1..(MaxChunkLen + 1), t \in 1..(MaxChunkStep + 1) :
            EqualLengths(L, t) =>
                /\ chunk_pc # "failed"
                /\ Len(chunks_out) <= 1 + ((L - 1) \div t)
                /\ RecordExhausted => Len(chunks_out) = 1 + ((L - 1) \div t)

\* C8 witness: a record with two active fields of length 4, cut with step
\* 3 and different sizes, is exhausted after 2 chunk records.
C8_Witness ==
    /\ chunk_pc = "loop"
    /\ chunk_dict # <<>>
    /\ ActiveFields = {"data", "classes"}
    /\ EqualLengths(4, 3)
    /\ SizeOf("data") # SizeOf("classes")
    /\ Len(chunks_out) = 2

\* the window number n (1-based) of field k of the record in hand: the
\* entries from offset (n-1)*step on, size of them or as many as are left
WindowLen(k, n) == Min2(SizeOf(k), SourceLength(k) - (n - 1) * StepOf(k))
Window(k, n) ==
    [j \in 1..WindowLen(k, n) |-> chunk_dict[1][k].data[(n - 1) * StepOf(k) + j]]

\* C9: for each active field the k-th chunk is value[k*step : k*step+size]
\* cut at the length of the field: it is not empty, not longer than size,
\* holds source entries only; with step = size the chunks of an exhausted
\* record, concatenated, are the value.
C9_ChunkWindows ==
    \A n \in 1..Len(chunks_out) : \A k \in ActiveFields :
        /\ WindowLen(k, n) >= 1
        /\ chunks_out[n][k].data = Window(k, n)
        /\ chunks_out[n][k].shape = <<WindowLen(k, n)>>
        /\ Len(chunks_out[n][k].data) <= SizeOf(k)
        /\ (RecordExhausted /\ StepOf(k) = SizeOf(k)) =>
              Flatten([m \in 1..Len(chunks_out) |-> chunks_out[m][k].data])
                  = chunk_dict[1][k].data

\* C9 witness: "data" of length 3 cut with size = step = 2 gave a window of
\* 2 entries and a last window of 1 entry.
C9_Witness ==
    /\ chunk_pc = "loop"
    /\ Len(chunks_out) = 2
    /\ "data" \in ActiveFields
    /\ SizeOf("data") = 2 /\ StepOf("data") = 2
    /\ SourceLength("data") = 3
    /\ Len(chunks_out[2]["data"].data) = 1

\* the active fields of the record in hand give different window counts
WindowCountsDiffer ==
    \E k1 \in ActiveFields, k2 \in ActiveFields : WindowCount(k1) # WindowCount(k2)

\* C10: a record whose active fields give different window counts makes
\* the Chunker fail with no chunk record of it yielded; in every yielded
\* chunk record all active fields hold the window of the same index; and
\* once failed the Chunker yields nothing more.
C10_InconsistentCounts ==
    /\ [](chunk_dict # <<>> /\ WindowCountsDiffer =>
             chunk_pc = "failed" /\ chunks_out = <<>>)
    /\ [](\A n \in 1..Len(chunks_out) : \A k \in ActiveFields :
             /\ n <= WindowCount(k)
             /\ chunks_out[n][k].data[1] = chunk_dict[1][k].data[(n - 1) * StepOf(k) + 1])
    /\ [][chunk_pc = "failed" =>
             chunk_pc' = "failed" /\ chunks_total' = chunks_total /\ chunks_out' = chunks_out]_vars

\* C10 witness: the first record was chunked and yielded, the second one
\* gave different window counts and the Chunker failed on it.
C10_Witness ==
    /\ chunk_pc = "failed"
    /\ chunk_error = "different number of chunks"
    /\ chunk_pulled = 2
    /\ chunks_total >= 2
    /\ chunks_out = <<>>
    /\ WindowCount("data") > WindowCount("classes")
    /\ WindowCount("classes") >= 1

(***************************************************************************)
(* Properties of collate_batch                                             *)
(***************************************************************************)
\* the fields that hold an array of one axis or more
ArrayFields(b) ==
    IF b = <<>> THEN {}
    ELSE { k \in DOMAIN b[1] : b[1][k].kind = "ndarray" /\ Len(b[1][k].shape) > 0 }

\* the records of the batch have, field by field, the same extents below
\* the leading axis
AgreeBelowLeadingAxis(b) ==
    \A k \in ArrayFields(b) : \A i \in 1..Len(b) : Tail(b[i][k].shape) = Tail(b[1][k].shape)

\* C11: when collate_batch returns, for every array field "<field>:size1"
\* lists, in batch order, the leading-axis length each record's array had
\* before padding, and "<field>:size0" is the number of records; and
\* collate_batch does return for every non-empty batch whose records agree
\* below the leading axis.
C11_SizeFields ==
    /\ collate_pc = "return" =>
          \A k \in ArrayFields(batch_arg) :
              /\ res[SizeKey(k, 1)] =
                    Tensor(<<Len(batch_arg)>>,
                           [i \in 1..Len(batch_arg) |-> LeadingLength(batch_arg[i][k])])
              /\ res[SizeKey(k, 0)] = Tensor(<<>>, <<Len(batch_arg)>>)
    /\ collate_pc = "raise" => batch_arg = <<>> \/ ~AgreeBelowLeadingAxis(batch_arg)

\* C11 witness: a batch of two records of different lengths was collated
\* and the lengths are listed in batch order.
C11_Witness ==
    /\ collate_pc = "return"
    /\ Len(batch_arg) = 2
    /\ res["classes:size1"].data = <<1, 2>>
    /\ res["data:size1"].data = <<2, 1>>
    /\ res["data:size0"].data = <<2>>

SomeBelow(arg, lo) ==
    \/ arg.kind = "int" /\ arg.int < lo
    \/ arg.kind = "dict" /\ \E k \in DOMAIN arg.dict : arg.dict[k] < lo

\* the step argument is None or the number 0
ZeroOrAbsent(step) == step.kind = "none" \/ (step.kind = "int" /\ step.int = 0)

KeySetsDiffer(size, step) ==
    size.kind = "dict" /\ step.kind = "dict" /\ DOMAIN size.dict # DOMAIN step.dict

\* C13: the Chunker's constructor rejects a chunk size with a non-positive
\* value, a chunk step with a negative value, and size and step mappings
\* over different key sets; with a step that is 0 or absent it fails only
\* because of the size, and the step of the Chunker made is the size; a
\* Chunker made has size and step over the same keys, every value of
\* both strictly positive.
C13_ChunkingValidated ==
    /\ chunk_pc # "new" /\ ( \/ SomeBelow(args[1], 1)
                            \/ SomeBelow(args[2], 0)
                            \/ KeySetsDiffer(args[1], args[2]) )
          => chunk_pc = "rejected"
    /\ ZeroOrAbsent(args[2]) =>
          /\ chunk_pc = "rejected" => args[1].kind = "none" \/ SomeBelow(args[1], 1)
          /\ chunk_pc = "constructed" => chunk_step = chunk_size
    /\ chunk_pc = "constructed" =>
          /\ NdKeys(chunk_step) = NdKeys(chunk_size)
          /\ NdMinValue(chunk_size) > 0
          /\ NdMinValue(chunk_step) > 0
          /\ chunk_size = ToNumbersDict(args[1])

\* C13 witness: a Chunker was made from a size mapping and the step 0, and
\* its step is the size mapping.
C13_Witness ==
    /\ chunk_pc = "constructed"
    /\ args[1].kind = "dict"
    /\ args[2] = ArgInt(0)
    /\ chunk_step = NumbersDictOfDict(args[1].dict)
    /\ DOMAIN args[1].dict = {"data", "classes"}

\* C14 as stated: the Batcher's constructor rejects every max_seqs <= 0 and
\* every budget with a value <= 0, and a Batcher made has max_seqs >= 1 and
\* every budget >= 1, an absent argument giving the unbounded value.
C14_RejectsNonPositive ==
    /\ pc # "new" /\ (SomeBelow(args[2], 1) \/ SomeBelow(args[1], 1)) => pc = "rejected"
    /\ pc = "constructed" =>
          /\ max_seqs >= 1
          /\ NdMinValue(max_batch_size) >= 1
          /\ args[1].kind = "none" => max_batch_size = NumbersDictOfInt(sys_maxsize)
          /\ args[2].kind = "none" => max_seqs = sys_maxsize

\* the max_seqs argument is -1
MinusOne(arg) == arg.kind = "int" /\ arg.int = -1

\* C14 (amended): the Batcher's constructor rejects every max_seqs <= 0
\* other than -1 and every budget with a value <= 0; max_seqs = -1 is taken
\* as absent; a Batcher made has max_seqs >= 1 and every budget >= 1, an
\* absent argument giving the unbounded value.
C14_RejectsNonPositiveButMinusOne ==
    /\ pc # "new" /\ ( \/ SomeBelow(args[2], 1) /\ ~MinusOne(args[2])
                      \/ SomeBelow(args[1], 1) )
          => pc = "rejected"
    /\ pc # "new" /\ MinusOne(args[2]) /\ ~SomeBelow(args[1], 1) =>
          pc = "constructed" /\ max_seqs = sys_maxsize
    /\ pc = "constructed" =>
          /\ max_seqs >= 1
          /\ NdMinValue(max_batch_size) >= 1
          /\ args[1].kind = "none" => max_batch_size = NumbersDictOfInt(sys_maxsize)
          /\ args[2].kind = "none" => max_seqs = sys_maxsize

\* C14 witness: a Batcher was made with max_seqs = -1 and a finite budget,
\* and its max_seqs is the unbounded value.
C14_Witness ==
    /\ pc = "constructed"
    /\ MinusOne(args[2])
    /\ args[1] = [kind |-> "int", int |-> 2, dict |-> NoDict]
    /\ max_seqs = sys_maxsize

(***************************************************************************)
(* Greedy batching                                                         *)
(***************************************************************************)
\* batch i of the yield history was yielded at the end of the source
YieldedAtEnd(i) ==
    /\ i = Len(yielded)
    /\ pc \in {"yield_last", "done"}
    /\ current_batch = yielded[i]

\* the first record of the batch that follows batch i of the yield history:
\* of the next yielded batch, or else the record the generator holds at the
\* yield, or else the first record of the batch in progress
FirstOfNext(i) ==
    IF i < Len(yielded) THEN yielded[i + 1][1]
    ELSE IF pc \in {"yield_max_seqs", "yield_budget"} THEN data_dict[1]
    ELSE current_batch[1]

\* C18: every batch B yielded before the end of the source was full or
\* could not take the record r that starts the following batch: B holds
\* max_seqs records, or for some budgeted field
\* max(largest length in B, length of r) * (len(B) + 1) exceeds the budget.
C18_Greedy ==
    \A i \in 1..Len(yielded) :
        ~YieldedAtEnd(i) =>
            LET B == yielded[i]
                r == FirstOfNext(i)
            IN \/ Len(B) = max_seqs
               \/ \E k \in BudgetedFields :
                     Max2(MaxLengthIn(B, k), LeadingLength(r[k])) * (Len(B) + 1) > Budget(k)

\* C18 witness: with no max_seqs, a batch of two records was yielded by the
\* budget flush and the record that did not fit is in the next yielded batch.
C18_Witness ==
    /\ max_seqs = sys_maxsize
    /\ Len(yielded) = 2
    /\ Len(yielded[1]) = 2
    /\ pc = "done"

(***************************************************************************)
(* Records that give no chunk                                              *)
(***************************************************************************)
\* C19: a source record whose active fields all have length 0 makes the
\* Chunker fail; every source record the Chunker got past (it is back at its
\* source, or has returned) gave at least one chunk record; and every chunk
\* record yielded has a non-empty value in each active field.
C19_ZeroLengthFails ==
    /\ chunk_dict # <<>> /\ (\A k \in ActiveFields : SourceLength(k) = 0)
          => chunk_pc = "failed" /\ chunk_error = "no chunk produced" /\ chunks_out = <<>>
    /\ chunk_dict # <<>> /\ RecordExhausted => chunks_out # <<>>
    /\ \A n \in 1..Len(chunks_out) : \A k \in ActiveFields :
          Len(chunks_out[n][k].data) > 0

\* C19 witness: after a record that gave chunk records, the Chunker failed
\* on a second record whose two active fields are empty.
C19_Witness ==
    /\ chunk_pc = "failed"
    /\ chunk_error = "no chunk produced"
    /\ chunk_pulled = 2
    /\ chunks_total >= 1
    /\ ActiveFields = {"data", "classes"}

(***************************************************************************)
(* Copies of the fields that are not chunked                               *)
(***************************************************************************)
\* the objects of the source record in hand
SourceIds == { id \in DOMAIN objects : id[2] = 0 }

\* a step that leaves the Chunker with the source record it has and writes
\* to the object behind field k of yielded chunk record n
WritesTo(n, k) ==
    /\ chunk_pulled' = chunk_pulled
    /\ out_refs' = out_refs
    /\ objects'[out_refs[n][k]] # objects[out_refs[n][k]]

\* C16: every chunk record is yielded with the source record's value in
\* every field that is not chunked, reserved fields included; and a write to
\* such a value of one yielded chunk record changes no value that another
\* chunk record of the same source record refers to, nor any value of the
\* source record.
C16_OwnCopies ==
    /\ [](\A n \in 1..Len(chunks_out) : \A k \in DOMAIN out_refs[n] :
             /\ k \in {"seq_tag", "seq_idx"} \cup (DOMAIN chunk_dict[1] \ ActiveFields)
             /\ chunks_out[n][k] = chunk_dict[1][k])
    /\ [][\A n \in 1..Len(out_refs) : \A k \in DOMAIN out_refs[n] :
             WritesTo(n, k) =>
                /\ \A m \in (1..Len(out_refs)) \ {n} : \A f \in DOMAIN out_refs[m] :
                      objects'[out_refs[m][f]] = objects[out_refs[m][f]]
                /\ \A id \in SourceIds : objects'[id] = objects[id]]_vars

\* C16 witness: of three chunk records of one source record, the consumer
\* wrote over the "classes" array of the second; the first, the third and
\* the source record still have the array they were given.
C16_Witness ==
    /\ Len(out_refs) = 3
    /\ Overwritten(objects[out_refs[2]["classes"]])
    /\ objects[out_refs[1]["classes"]] = chunk_dict[1]["classes"]
    /\ objects[out_refs[3]["classes"]] = chunk_dict[1]["classes"]
    /\ objects[<<"classes", 0>>] = chunk_dict[1]["classes"]
    /\ Len(chunk_dict[1]["classes"].data) = 2

(***************************************************************************)
(* Properties of the composed pipeline                                     *)
(***************************************************************************)
\* the number of the source record a chunk record was cut from
SourceOf(rec) == rec["seq_idx"].data[1]

\* C15: when the Batcher yields a batch, it has taken from its source at
\* most one record more than the batches yielded so far, this one
\* included, hold; and the Chunker takes a record from its source only
\* when every chunk record of the record it had has been yielded and taken
\* by the Batcher.
C15_Lookahead ==
    /\ [](pc \in {"yield_max_seqs", "yield_budget", "yield_last"} =>
             /\ pulled - Len(Flatten(yielded)) <= 1
             /\ Len(dataset) = pulled)
    /\ [][chunk_pulled' # chunk_pulled =>
             /\ Len(chunks_out) = num_chunks
             /\ pulled = chunks_total]_vars

\* C15 witness: the Batcher yields at the budget flush holding one record
\* that is in no yielded batch, a chunk record of the second source record.
C15_Witness ==
    /\ pc = "yield_budget"
    /\ pulled = Len(Flatten(yielded)) + 1
    /\ chunk_pulled = 2
    /\ SourceOf(data_dict[1]) = 2
    /\ Len(yielded) = 2

\* C17: once the Chunker has failed, the Batcher yields no batch, the batch
\* in progress included, and ends with the Chunker's error; the batches
\* yielded before stay as they are and hold chunk records of the source
\* records before the failing one only.
C17_FailureStopsPipeline ==
    /\ [][chunk_pc = "failed" => yielded' = yielded]_vars
    /\ [](chunk_pc = "failed" =>
             /\ pc \in {"loop", "failed"}
             /\ \A i \in 1..Len(yielded) : \A j \in 1..Len(yielded[i]) :
                   SourceOf(yielded[i][j]) < chunk_pulled)
    /\ [](pc = "failed" => chunk_pc = "failed")

\* C17 witness: the pipeline has ended with the Chunker's error on the
\* second source record, after a batch was yielded and with a batch in
\* progress that was not yielded.
C17_Witness ==
    /\ pc = "failed"
    /\ chunk_pulled = 2
    /\ yielded # <<>>
    /\ current_batch # <<>>
    /\ InNoYieldedBatch(current_batch)

(***************************************************************************)
(* Axes below the leading one                                              *)
(***************************************************************************)
\* the extent of an axis of field k over the batch: the largest one
MaxExtent(b, k, axis) == MaxOf({ b[i][k].shape[axis] : i \in 1..Len(b) })

Axes(b, k) == 1..Len(b[1][k].shape)

\* record i differs from the first record below the leading axis of field k
DiffersBelow(b, k, i) == Tail(b[i][k].shape) # Tail(b[1][k].shape)

\* C20 as stated: collate_batch returns for every non-empty batch, with
\* every array field padded along every axis to the largest extent of that
\* axis in the batch, and "<field>:size<k>" listing each record's own
\* extent of axis k - 1.
C20_PadsEveryAxis ==
    collate_pc # "call" /\ batch_arg # <<>> =>
        /\ collate_pc = "return"
        /\ \A k \in ArrayFields(batch_arg) :
              /\ res[k].shape = <<Len(batch_arg)>> \o
                                [axis \in Axes(batch_arg, k) |-> MaxExtent(batch_arg, k, axis)]
              /\ \A axis \in Axes(batch_arg, k) :
                    res[SizeKey(k, axis)] =
                        Tensor(<<Len(batch_arg)>>,
                               [i \in 1..Len(batch_arg) |-> batch_arg[i][k].shape[axis]])

\* C20 (amended): collate_batch pads along the leading axis only; below it
\* the container has the extents of the first record's array.  A record
\* that differs there with an extent other than 1 makes the call raise; one
\* that differs with an extent of 1 has its entries repeated, not padded.
\* When the call returns, "<field>:size<k>" lists each record's own extent
\* of axis k - 1, for every axis.
C20_PadsLeadingAxisOnly ==
    /\ collate_pc # "call" /\ batch_arg # <<>> =>
          ( collate_pc = "raise" <=>
               \E k \in ArrayFields(batch_arg) : \E i \in 1..Len(batch_arg) :
                   DiffersBelow(batch_arg, k, i) /\ batch_arg[i][k].shape[2] # 1 )
    /\ collate_pc = "return" =>
          \A k \in ArrayFields(batch_arg) :
              /\ res[k].shape = <<Len(batch_arg), MaxExtent(batch_arg, k, 1)>>
                                \o Tail(batch_arg[1][k].shape)
              /\ \A axis \in Axes(batch_arg, k) :
                    res[SizeKey(k, axis)] =
                        Tensor(<<Len(batch_arg)>>,
                               [i \in 1..Len(batch_arg) |-> batch_arg[i][k].shape[axis]])
              /\ \A i \in 1..Len(batch_arg) :
                    DiffersBelow(batch_arg, k, i) =>
                        \A j \in 1..batch_arg[i][k].shape[1] :
                            res[k].data[i][j] =
                                [c \in 1..batch_arg[1][k].shape[2] |-> batch_arg[i][k].data[j][1]]

\* C20 witness: the call raised on a batch of two records whose "data"
\* arrays have 2 and 3 columns.
C20_Witness ==
    /\ collate_pc = "raise"
    /\ Len(batch_arg) = 2
    /\ batch_arg[1]["data"].shape[2] = 2
    /\ batch_arg[2]["data"].shape[2] = 3

(***************************************************************************)
(* The accumulators of the Batcher                                         *)
(***************************************************************************)
\* C21: wherever the generator stands (at the head of its loop, suspended
\* at a yield, or returned), current_max_sequence_lengths gives, for every
\* field, the largest length of the field over the records of
\* current_batch, and 0 for every field when current_batch is empty; so no
\* flush resets one accumulator without the other.  Resumed after a flush,
\* the generator holds the batch of the record in hand alone.
C21_Accumulators ==
    /\ \A k \in AllFields :
          /\ NdHas(current_max_sequence_lengths, k)
          /\ NdGet(current_max_sequence_lengths, k) = MaxLengthIn(current_batch, k)
    /\ current_batch = <<>> => current_max_sequence_lengths = NumbersDictOfInt(0)
    /\ pc = "loop" /\ yielded # <<>> /\ Len(current_batch) = 1 =>
          current_max_sequence_lengths = NdMax(NumbersDictOfInt(0), sequence_lengths(current_batch[1]))
          \/ current_max_sequence_lengths = sequence_lengths(current_batch[1])

\* C21 witness: after a budget flush of one record, the batch in progress
\* holds a record of "data" length 2 and then one of length 1, and the
\* accumulator still gives 2 for "data".
C21_Witness ==
    /\ pc = "loop"
    /\ Len(yielded) = 1
    /\ Len(current_batch) = 2
    /\ LeadingLength(current_batch[1]["data"]) = 2
    /\ LeadingLength(current_batch[2]["data"]) = 1
    /\ NdGet(current_max_sequence_lengths, "data") = 2

====
